---------------------------- MODULE Spec2Model ----------------------------
(***************************************************************************)
(* Model of lsst::cpputils::Cache (include/lsst/cpputils/Cache.h): a cache *)
(* of the most recently used values, kept in a boost::multi_index          *)
(* container with a sequenced index (recency order, front = most recent)   *)
(* and a hashed_unique index on the key.  Beside it, two stateless         *)
(* utilities of the library: python::TemplateInvoker                       *)
(* (include/lsst/cpputils/python/TemplateInvoker.h) and getPackageDir as   *)
(* tests/test_packaging.cc calls it.                                       *)
(***************************************************************************)
EXTENDS Integers, Sequences, FiniteSets

\* Bounds of the model.
MaxCapacity == 2   \* largest capacity given to the constructor or to reserve
MaxClock == 5      \* number of accesses that are time-stamped
MaxTypes == 2      \* longest Tag<TypesToTry...> given to TemplateInvoker::apply

\* Key and Value template arguments: small finite domains.
Keys == {"A", "B", "C"}
Values == {"v1", "v2"}
\* What a Generator call may do besides returning a Value: throw, an
\* exception of its own or the NotFoundError the cache itself uses.
GenErrors == {"GeneratorFailure", "NotFound"}

VARIABLES
    _maxElements,  \* Cache::_maxElements
    _container,    \* Cache::_container: [seq: sequenced index, hash: hashed index]
    last,          \* outcome of the last public call (what the caller observes)
                   \* and its arguments
    pre,           \* _maxElements and _container when the last call started
    clock,         \* number of time-stamped accesses so far
    lastAccess,    \* per present key, the clock value of its last access
    genState,      \* per key, the outcome of the last generator run for it
                   \* since the key was last removed or the cache flushed
    invoked,       \* one TemplateInvoker::apply call: its arguments and result
    packaged,      \* one getPackageDir call: the installation, the name asked
                   \* for and the result
    generating,    \* the key of the getOrCompute call whose generator is
                   \* running, or "none"
    loop           \* the eviction loop that is running, if any, and what it
                   \* has done so far

vars == <<_maxElements, _container, last, pre, clock, lastAccess, genState,
          invoked, packaged, generating, loop>>

----------------------------------------------------------------------------
\* std::pair<Key, Value>
Element(k, v) == [first |-> k, second |-> v]

\* The past-the-end iterator of the hashed index.
end == [first |-> "end", second |-> "end"]

\* A default-constructed (empty) Container.
EmptyContainer == [seq |-> <<>>, hash |-> {}]

\* Container::size()
size(c) == Len(c.seq)

\* hashContainer.find(key): the element with that key, or end().
find(c, key) ==
    IF \E e \in c.hash : e.first = key
    THEN CHOOSE e \in c.hash : e.first = key
    ELSE end

\* _container.project<Sequence>(it): position of the element in the
\* sequenced index.
project(c, it) == CHOOSE i \in 1..Len(c.seq) : c.seq[i] = it

\* relocate that links the element in at the front without unlinking it from
\* its old position.
relocateCopy(c, i) == [c EXCEPT !.seq = <<c.seq[i]>> \o c.seq]

\* relocate that exchanges the element with the front one.
relocateSwap(c, i) ==
    [c EXCEPT !.seq = [j \in 1..Len(c.seq) |->
                          IF j = 1 THEN c.seq[i]
                          ELSE IF j = i THEN c.seq[1] ELSE c.seq[j]]]

\* relocate(end(), position): the element goes to the back.
relocateToBack(c, i) ==
    [c EXCEPT !.seq = SubSeq(c.seq, 1, i - 1)
                         \o SubSeq(c.seq, i + 1, Len(c.seq)) \o <<c.seq[i]>>]

\* _container.relocate(begin(), position): move the element at position i
\* to the front of the sequenced index; the hashed index is untouched.
relocate(c, i) ==
    [c EXCEPT !.seq = <<c.seq[i]>> \o SubSeq(c.seq, 1, i - 1)
                                   \o SubSeq(c.seq, i + 1, Len(c.seq))]

\* emplace_front into a container whose hashed index is not unique: the
\* element is linked in whether or not the key is there already.
emplace_frontDuplicate(c, key, value) ==
    [seq |-> <<Element(key, value)>> \o c.seq,
     hash |-> c.hash \cup {Element(key, value)}]

\* emplace_front that links the new element in at the back.
emplace_back(c, key, value) ==
    IF \E e \in c.hash : e.first = key
    THEN c
    ELSE [seq |-> c.seq \o <<Element(key, value)>>,
          hash |-> c.hash \cup {Element(key, value)}]

\* get<Sequence>().emplace_front(key, value): the insertion happens only if
\* the hashed_unique index admits the key; then both indices get the element.
emplace_front(c, key, value) ==
    IF \E e \in c.hash : e.first = key
    THEN c
    ELSE [seq |-> <<Element(key, value)>> \o c.seq,
          hash |-> c.hash \cup {Element(key, value)}]

\* get<Sequence>().pop_front()
pop_front(c) ==
    [seq |-> SubSeq(c.seq, 2, Len(c.seq)), hash |-> c.hash \ {c.seq[1]}]

\* get<Sequence>().pop_back(): the last element leaves both indices.
pop_back(c) ==
    [seq |-> SubSeq(c.seq, 1, Len(c.seq) - 1),
     hash |-> c.hash \ {c.seq[Len(c.seq)]}]

\* _trim without the test for capacity 0.
RECURSIVE _trimAlways(_, _)
_trimAlways(maxElements, c) ==
    IF size(c) > maxElements THEN _trimAlways(maxElements, pop_back(c)) ELSE c

\* _trim that removes the most recent elements instead of the oldest.
RECURSIVE _trimFront(_, _)
_trimFront(maxElements, c) ==
    IF maxElements = 0 THEN c
    ELSE IF size(c) > maxElements THEN _trimFront(maxElements, pop_front(c))
    ELSE c

\* Cache::_trim
RECURSIVE _trim(_, _)
_trim(maxElements, c) ==
    IF maxElements = 0 THEN c
    ELSE IF size(c) > maxElements THEN _trim(maxElements, pop_back(c))
    ELSE c

\* _lookup that finds the key but leaves it where it is.
_lookupUnpromoted(c, key) ==
    LET it == find(c, key)
    IN  [it |-> it, found |-> (it # end), container |-> c]

\* Cache::_lookup
_lookup(c, key) ==
    LET it == find(c, key)
        found == (it # end)
    IN  [it |-> it, found |-> found,
         container |-> IF found THEN relocate(c, project(c, it)) ELSE c]

\* _addNew that trims before it inserts.
_addNewTrimFirst(maxElements, c, key, value) ==
    emplace_front(_trim(maxElements, c), key, value)

\* _addNew that forgets to trim.
_addNewUntrimmed(maxElements, c, key, value) == emplace_front(c, key, value)

\* Cache::_addNew
_addNew(maxElements, c, key, value) ==
    _trim(maxElements, emplace_front(c, key, value))

\* flush whose loop stops one element early.
RECURSIVE flushButOne(_)
flushButOne(c) == IF size(c) > 1 THEN flushButOne(pop_back(c)) ELSE c

\* Cache::flush
RECURSIVE flush(_)
flush(c) == IF size(c) > 0 THEN flush(pop_back(c)) ELSE c

\* keys that walks the sequenced index from its back.
keysReversed(c) == [i \in 1..Len(c.seq) |-> c.seq[Len(c.seq) + 1 - i].first]

\* Cache::keys
keys(c) == [i \in 1..Len(c.seq) |-> c.seq[i].first]

\* Cache::capacity
capacity(maxElements) == maxElements

\* What a call hands back to its caller, besides the new container:
\* found (the key was there), ret (the Value returned), err (the exception
\* thrown) and gen (how often the generator ran).
Outcome(c, found, ret, err, gen) ==
    [container |-> c, found |-> found, ret |-> ret, err |-> err, gen |-> gen]

\* add that replaces the value of a key it finds (last value wins).
addOverwrite(maxElements, c, key, value) ==
    LET result == _lookup(c, key)
    IN  IF ~result.found
        THEN Outcome(_addNew(maxElements, result.container, key, value),
                     FALSE, "none", "none", 0)
        ELSE Outcome([seq |-> <<Element(key, value)>>
                                 \o Tail(result.container.seq),
                      hash |-> (result.container.hash \ {result.it})
                                 \cup {Element(key, value)}],
                     TRUE, "none", "none", 0)

\* Cache::add
add(maxElements, c, key, value) ==
    LET result == _lookup(c, key)
    IN  IF ~result.found
        THEN Outcome(_addNew(maxElements, result.container, key, value),
                     FALSE, "none", "none", 0)
        ELSE Outcome(result.container, TRUE, "none", "none", 0)

\* operator() that runs the generator on a hit as well and stores what it
\* returned.
operator_callRefresh(maxElements, c, key, func) ==
    LET result == _lookup(c, key)
    IN  IF func \in GenErrors
        THEN Outcome(result.container, result.found, "none", func, 1)
        ELSE IF result.found
        THEN Outcome([seq |-> <<Element(key, func)>>
                                 \o Tail(result.container.seq),
                      hash |-> (result.container.hash \ {result.it})
                                 \cup {Element(key, func)}],
                     TRUE, func, "none", 1)
        ELSE Outcome(_addNew(maxElements, result.container, key, func),
                     FALSE, func, "none", 1)

\* operator() that runs the generator before it looks the key up.
operator_callEager(maxElements, c, key, func) ==
    LET result == _lookup(c, key)
    IN  IF func \in GenErrors
        THEN Outcome(c, FALSE, "none", func, 1)
        ELSE IF result.found
        THEN Outcome(result.container, TRUE, result.it.second, "none", 1)
        ELSE Outcome(_addNew(maxElements, result.container, key, func),
                     FALSE, func, "none", 1)

\* operator() that inserts an entry for the key first and lets the generator
\* fill it in afterwards.
operator_callPlaceholder(maxElements, c, key, func) ==
    LET result == _lookup(c, key)
        placeholder == CHOOSE v \in Values : TRUE
    IN  IF result.found
        THEN Outcome(result.container, TRUE, result.it.second, "none", 0)
        ELSE IF func \in GenErrors
        THEN Outcome(_addNew(maxElements, result.container, key, placeholder),
                     FALSE, "none", func, 1)
        ELSE Outcome(_addNew(maxElements, result.container, key, func),
                     FALSE, func, "none", 1)

\* Cache::operator(); func is what the generator does when it is given
\* the key: return a Value, or throw.
operator_call(maxElements, c, key, func) ==
    LET result == _lookup(c, key)
    IN  IF result.found
        THEN Outcome(result.container, TRUE, result.it.second, "none", 0)
        ELSE IF func \in GenErrors
        THEN Outcome(result.container, FALSE, "none", func, 1)
        ELSE Outcome(_addNew(maxElements, result.container, key, func),
                     FALSE, func, "none", 1)

\* operator[] that inserts a default value for a key it does not find, as
\* std::map::operator[] does.
operator_indexInserting(c, key) ==
    LET result == _lookup(c, key)
    IN  IF result.found
        THEN Outcome(result.container, TRUE, result.it.second, "none", 0)
        ELSE Outcome(emplace_front(result.container, key,
                                   CHOOSE v \in Values : TRUE),
                     FALSE, "none", "NotFound", 0)

\* Cache::operator[]
operator_index(c, key) ==
    LET result == _lookup(c, key)
    IN  IF result.found
        THEN Outcome(result.container, TRUE, result.it.second, "none", 0)
        ELSE Outcome(result.container, FALSE, "none", "NotFound", 0)

\* get that hands back a default-constructed Value for a key it does not
\* find, instead of an empty optional.
getDefault(c, key) ==
    LET result == _lookup(c, key)
    IN  IF result.found
        THEN Outcome(result.container, TRUE, result.it.second, "none", 0)
        ELSE Outcome(result.container, FALSE, CHOOSE v \in Values : TRUE,
                     "none", 0)

\* get written in terms of operator[]: it throws for a key it does not find.
getThrowing(c, key) ==
    LET result == _lookup(c, key)
    IN  IF result.found
        THEN Outcome(result.container, TRUE, result.it.second, "none", 0)
        ELSE Outcome(result.container, FALSE, "none", "NotFound", 0)

\* Cache::get
get(c, key) ==
    LET result == _lookup(c, key)
    IN  IF result.found
        THEN Outcome(result.container, TRUE, result.it.second, "none", 0)
        ELSE Outcome(result.container, FALSE, "none", "none", 0)

\* Cache::contains
contains(c, key) ==
    LET result == _lookup(c, key)
    IN  Outcome(result.container, result.found, "none", "none", 0)

\* reserve that sets the capacity and does not trim.
reserveUntrimmed(c, maxElements) ==
    Outcome(c, FALSE, "none", "none", 0)

\* Cache::reserve
reserve(c, maxElements) ==
    Outcome(_trim(maxElements, c), FALSE, "none", "none", 0)

----------------------------------------------------------------------------
\* python::TemplateInvoker

\* nb::dlpack::dtype: type code and width.
dlpack_dtype(code, bits) == [code |-> code, bits |-> bits]

\* The keys of dtype_map in get_dtype.
dtype_map_names ==
    {"uint8", "uint16", "uint32", "uint64", "int8", "int16", "int32", "int64",
     "float32", "float64"}

\* dtype_map in get_dtype
dtype_map(type) ==
    CASE type = "uint8" -> dlpack_dtype("uint", 8)
      [] type = "uint16" -> dlpack_dtype("uint", 16)
      [] type = "uint32" -> dlpack_dtype("uint", 32)
      [] type = "uint64" -> dlpack_dtype("uint", 64)
      [] type = "int8" -> dlpack_dtype("int", 8)
      [] type = "int16" -> dlpack_dtype("int", 16)
      [] type = "int32" -> dlpack_dtype("int", 32)
      [] type = "int64" -> dlpack_dtype("int", 64)
      [] type = "float32" -> dlpack_dtype("float", 32)
      [] type = "float64" -> dlpack_dtype("float", 64)

\* TemplateInvoker::get_dtype: the dtype of a name of dtype_map, and
\* std::out_of_range for any other name.
get_dtype(type) ==
    IF type \in dtype_map_names
    THEN [thrown |-> "none", dtype |-> dtype_map(type)]
    ELSE [thrown |-> "std::out_of_range", dtype |-> dlpack_dtype("none", 0)]

\* The C++ types given in Tag<TypesToTry...>.
CppTypes == {"int", "float", "double", "bool"}

\* nb::dtype<T>()
nb_dtype(T) ==
    CASE T = "int" -> dlpack_dtype("int", 32)
      [] T = "float" -> dlpack_dtype("float", 32)
      [] T = "double" -> dlpack_dtype("float", 64)
      [] T = "bool" -> dlpack_dtype("bool", 8)

\* The `name` attribute of the dtype objects Python passes in.
DtypeNames == dtype_map_names \cup {"bool", "complex64"}

\* The error callbacks a TemplateInvoker is constructed with.
OnErrorCallbacks == {"handleErrorDefault", "customOnError"}

\* What an apply call ends in: called is "function" (with the type it was
\* given), the error callback (with the dtype name) or "throw" (with the
\* exception).
Invocation(called, with) == [called |-> called, with |-> with]

\* TemplateInvoker::_apply, both overloads
RECURSIVE _apply(_, _, _)
_apply(onError, dtype, typesToTry) ==
    IF typesToTry = <<>>
    THEN Invocation(onError, dtype)
    ELSE LET name == dtype
             type == get_dtype(name)
         IN  IF type.thrown # "none"
             THEN Invocation("throw", type.thrown)
             ELSE IF type.dtype = nb_dtype(Head(typesToTry))
             THEN Invocation("function", Head(typesToTry))
             ELSE _apply(onError, dtype, Tail(typesToTry))

\* TemplateInvoker::apply
apply(onError, dtype, typesToTry) == _apply(onError, dtype, typesToTry)

\* Tag<TypesToTry...> of up to MaxTypes types.
Tags == UNION {[1..n -> CppTypes] : n \in 0..MaxTypes}

NotInvoked ==
    [onError |-> "handleErrorDefault", dtype |-> "none", typesToTry |-> <<>>,
     result |-> Invocation("none", "none")]

\* A TemplateInvoker is constructed and apply is about to be called.
Constructed ==
    \E onError \in OnErrorCallbacks, dtype \in DtypeNames, typesToTry \in Tags :
        invoked = [onError |-> onError, dtype |-> dtype,
                   typesToTry |-> typesToTry,
                   result |-> Invocation("none", "none")]

\* The apply call runs.
Apply ==
    /\ invoked.result.called = "none"
    /\ invoked.dtype # "none"
    /\ invoked' = [invoked EXCEPT
                     !.result = apply(invoked.onError, invoked.dtype,
                                      invoked.typesToTry)]

----------------------------------------------------------------------------
\* getPackageDir, as tests/test_packaging.cc uses it.

PackageNames == {"cpputils", "pex_exceptions", "base"}

\* A name no package has.
UnknownPackage == "nameOfNonexistendPackage2234q?#!"

Directories == {"/stack/one", "/stack/two"}

\* The installations: the known packages with their directories, and the
\* directories that hold a regular file tests/test_packaging.cc. cpputils is
\* always known and its directory holds its own tests.
Installations ==
    {[dirs |-> d, tests |-> t] :
        d \in UNION {[P -> Directories] : P \in SUBSET PackageNames},
        t \in SUBSET Directories}

\* getPackageDir that returns the directory of any known package.
getPackageDirAny(installation, packageName) ==
    IF packageName \in DOMAIN installation.dirs
    THEN [path |-> installation.dirs[CHOOSE p \in DOMAIN installation.dirs :
                                        installation.dirs[p]
                                            \notin installation.tests
                                        \/ \A q \in DOMAIN installation.dirs :
                                              installation.dirs[q]
                                                  \in installation.tests],
          err |-> "none"]
    ELSE [path |-> "none", err |-> "NotFound"]

\* getPackageDir: the directory of a known package, NotFoundError otherwise.
getPackageDir(installation, packageName) ==
    IF packageName \in DOMAIN installation.dirs
    THEN [path |-> installation.dirs[packageName], err |-> "none"]
    ELSE [path |-> "none", err |-> "NotFound"]

\* std::filesystem::is_regular_file(path / "tests" / "test_packaging.cc")
is_regular_file(installation, path) == path \in installation.tests

NotPackaged ==
    [installation |-> [dirs |-> <<>>, tests |-> {}], name |-> "none",
     result |-> [path |-> "none", err |-> "none"], called |-> FALSE]

\* The installations and names the GetPackage test case can meet.
Installed ==
    \E installation \in Installations,
       name \in PackageNames \cup {UnknownPackage} :
        /\ "cpputils" \in DOMAIN installation.dirs
        /\ installation.dirs["cpputils"] \in installation.tests
        /\ packaged = [installation |-> installation, name |-> name,
                       result |-> [path |-> "none", err |-> "none"],
                       called |-> FALSE]

\* One getPackageDir call of the GetPackage test case.
GetPackage ==
    /\ ~packaged.called
    /\ packaged.name # "none"
    /\ packaged' = [packaged EXCEPT
                      !.result = getPackageDir(packaged.installation,
                                               packaged.name),
                      !.called = TRUE]

----------------------------------------------------------------------------
\* The calls on one Cache object. Each records what its caller observes
\* (last) and the state it started from (pre).

KeySet(c) == {c.seq[i].first : i \in 1..Len(c.seq)}

\* No eviction loop has run: fn is the function whose loop runs or ran last,
\* running whether it is still in it, entry the container on entry, pops the
\* number of pop_back calls so far and emptyPop whether one of them was made
\* on an empty sequence.
NotLooping ==
    [fn |-> "none", running |-> FALSE, pops |-> 0, entry |-> EmptyContainer,
     emptyPop |-> FALSE]

Snapshot == [maxElements |-> _maxElements, container |-> _container]

\* n is the std::size_t given to or returned by the call and list the
\* std::vector<Key> it returned, for the calls that have one.
Observed(op, key, value, out) ==
    [op |-> op, key |-> key, value |-> value, found |-> out.found,
     ret |-> out.ret, err |-> out.err, gen |-> out.gen, n |-> 0, list |-> <<>>]

\* Cache::Cache
Init ==
    /\ _maxElements \in 0..MaxCapacity
    /\ _container = EmptyContainer
    /\ last = [op |-> "construct", key |-> "none", value |-> "none",
               found |-> FALSE, ret |-> "none", err |-> "none", gen |-> 0,
               n |-> _maxElements, list |-> <<>>]
    /\ pre = [maxElements |-> _maxElements, container |-> EmptyContainer]
    /\ clock = 0
    /\ lastAccess = [k \in Keys |-> 0]
    /\ genState = [k \in Keys |-> "none"]
    /\ invoked = NotInvoked
    /\ packaged = NotPackaged
    /\ generating = "none"
    /\ loop = NotLooping

Add(key, value) ==
    LET out == add(_maxElements, _container, key, value)
    IN  /\ _container' = out.container
        /\ UNCHANGED _maxElements
        /\ last' = Observed("add", key, value, out)
        /\ pre' = Snapshot
        /\ UNCHANGED <<invoked, packaged, generating, loop>>

GetOrCompute(key, func) ==
    LET out == operator_call(_maxElements, _container, key, func)
    IN  /\ _container' = out.container
        /\ UNCHANGED _maxElements
        /\ last' = Observed("getOrCompute", key, func, out)
        /\ pre' = Snapshot
        /\ UNCHANGED <<invoked, packaged, generating, loop>>

Lookup(key) ==
    LET out == operator_index(_container, key)
    IN  /\ _container' = out.container
        /\ UNCHANGED _maxElements
        /\ last' = Observed("lookup", key, "none", out)
        /\ pre' = Snapshot
        /\ UNCHANGED <<invoked, packaged, generating, loop>>

Get(key) ==
    LET out == get(_container, key)
    IN  /\ _container' = out.container
        /\ UNCHANGED _maxElements
        /\ last' = Observed("tryGet", key, "none", out)
        /\ pre' = Snapshot
        /\ UNCHANGED <<invoked, packaged, generating, loop>>

Contains(key) ==
    LET out == contains(_container, key)
    IN  /\ _container' = out.container
        /\ UNCHANGED _maxElements
        /\ last' = Observed("contains", key, "none", out)
        /\ pre' = Snapshot
        /\ UNCHANGED <<invoked, packaged, generating, loop>>

Reserve(maxElements) ==
    LET out == reserve(_container, maxElements)
    IN  /\ _maxElements' = maxElements
        /\ _container' = out.container
        /\ last' = [Observed("reserve", "none", "none", out)
                       EXCEPT !.n = maxElements]
        /\ pre' = Snapshot
        /\ UNCHANGED <<invoked, packaged, generating, loop>>

Flush ==
    LET out == Outcome(flush(_container), FALSE, "none", "none", 0)
    IN  /\ _container' = out.container
        /\ UNCHANGED _maxElements
        /\ last' = Observed("flush", "none", "none", out)
        /\ pre' = Snapshot
        /\ UNCHANGED <<invoked, packaged, generating, loop>>

\* Cache::size, a const member function
Size ==
    LET out == Outcome(_container, FALSE, "none", "none", 0)
    IN  /\ UNCHANGED <<_maxElements, _container>>
        /\ last' = [Observed("size", "none", "none", out)
                       EXCEPT !.n = size(_container)]
        /\ pre' = Snapshot
        /\ UNCHANGED <<invoked, packaged, generating, loop>>

\* Cache::keys, a const member function
ListKeys ==
    LET out == Outcome(_container, FALSE, "none", "none", 0)
    IN  /\ UNCHANGED <<_maxElements, _container>>
        /\ last' = [Observed("keys", "none", "none", out)
                       EXCEPT !.list = keys(_container)]
        /\ pre' = Snapshot
        /\ UNCHANGED <<invoked, packaged, generating, loop>>

\* Cache::capacity, a const member function
Capacity ==
    LET out == Outcome(_container, FALSE, "none", "none", 0)
    IN  /\ UNCHANGED <<_maxElements, _container>>
        /\ last' = [Observed("capacity", "none", "none", out)
                       EXCEPT !.n = capacity(_maxElements)]
        /\ pre' = Snapshot
        /\ UNCHANGED <<invoked, packaged, generating, loop>>

\* Cache::operator() up to the call of func: the lookup. On a hit the call
\* is over; on a miss the generator starts, and what it does on the cache
\* are calls of their own.
GetOrComputeEnter(key) ==
    LET result == _lookup(_container, key)
        out == Outcome(result.container, result.found,
                       IF result.found THEN result.it.second ELSE "none",
                       "none", 0)
    IN  /\ generating = "none"
        /\ _container' = out.container
        /\ UNCHANGED _maxElements
        /\ last' = Observed("getOrComputeEnter", key, "none", out)
        /\ pre' = Snapshot
        /\ generating' = IF result.found THEN "none" ELSE key
        /\ UNCHANGED <<invoked, packaged, loop>>

\* Cache::operator() from the return of func: _addNew on the cache as the
\* generator left it (pre), or the generator's exception.
GetOrComputeReturn(func) ==
    LET key == generating
        out == IF func \in GenErrors
               THEN Outcome(_container, FALSE, "none", func, 1)
               ELSE Outcome(_addNew(_maxElements, _container, key, func),
                            FALSE, func, "none", 1)
    IN  /\ generating # "none"
        /\ _container' = out.container
        /\ UNCHANGED _maxElements
        /\ last' = Observed("getOrComputeReturn", key, func, out)
        /\ pre' = Snapshot
        /\ generating' = "none"
        /\ UNCHANGED <<invoked, packaged, loop>>

----------------------------------------------------------------------------
\* The eviction loops of _trim and flush, one test or one pop_back at a time.

\* _trim: if (capacity() == 0) return;
_trimUnbounded(maxElements) == capacity(maxElements) = 0

\* The loop test of _trim with >= for >.
_trimWhileInclusive(maxElements, c) == size(c) >= capacity(maxElements)

\* _trim: while (size() > capacity())
_trimWhile(maxElements, c) == size(c) > capacity(maxElements)

\* flush: while (size() > 0)
flushWhile(c) == size(c) > 0

Entered(fn, c) ==
    [fn |-> fn, running |-> TRUE, pops |-> 0, entry |-> c, emptyPop |-> FALSE]

\* One pop_back of a loop. On an empty sequence pop_back is undefined: the
\* container may come out as anything, here as it is or with an element
\* that was there on entry.
Popped ==
    /\ IF size(_container) > 0
       THEN _container' = pop_back(_container)
       ELSE \/ _container' = _container
            \/ /\ size(loop.entry) > 0
               /\ _container' = [seq |-> <<loop.entry.seq[1]>>,
                                 hash |-> {loop.entry.seq[1]}]
    /\ loop' = [loop EXCEPT !.pops = @ + 1,
                            !.emptyPop = @ \/ size(_container) = 0]

CacheOnly ==
    UNCHANGED <<last, pre, clock, lastAccess, genState, invoked, packaged,
                generating>>

\* _addNew up to the call of _trim: emplace_front of a key that is not there.
AddNewEmplace(key, value) ==
    /\ ~loop.running
    /\ find(_container, key) = end
    /\ _container' = emplace_front(_container, key, value)
    /\ loop' = Entered("_trim", _container')
    /\ UNCHANGED _maxElements
    /\ CacheOnly

\* reserve up to the call of _trim: the assignment to _maxElements.
ReserveAssign(maxElements) ==
    /\ ~loop.running
    /\ _maxElements' = maxElements
    /\ loop' = Entered("_trim", _container)
    /\ UNCHANGED _container
    /\ CacheOnly

\* _trim leaves: capacity 0, or the loop test fails.
TrimReturn ==
    /\ loop.running /\ loop.fn = "_trim"
    /\ _trimUnbounded(_maxElements) \/ ~_trimWhile(_maxElements, _container)
    /\ loop' = [loop EXCEPT !.running = FALSE]
    /\ UNCHANGED <<_maxElements, _container>>
    /\ CacheOnly

\* One turn of the loop of _trim.
TrimPop ==
    /\ loop.running /\ loop.fn = "_trim"
    /\ ~_trimUnbounded(_maxElements)
    /\ _trimWhile(_maxElements, _container)
    /\ Popped
    /\ UNCHANGED _maxElements
    /\ CacheOnly

\* flush is called.
FlushEnter ==
    /\ ~loop.running
    /\ loop' = Entered("flush", _container)
    /\ UNCHANGED <<_maxElements, _container>>
    /\ CacheOnly

\* One turn of the loop of flush.
FlushPop ==
    /\ loop.running /\ loop.fn = "flush"
    /\ flushWhile(_container)
    /\ Popped
    /\ UNCHANGED _maxElements
    /\ CacheOnly

\* flush leaves: the loop test fails.
FlushReturn ==
    /\ loop.running /\ loop.fn = "flush"
    /\ ~flushWhile(_container)
    /\ loop' = [loop EXCEPT !.running = FALSE]
    /\ UNCHANGED <<_maxElements, _container>>
    /\ CacheOnly

\* A step of a running loop.
LoopStep == TrimReturn \/ TrimPop \/ FlushPop \/ FlushReturn

NextLoops ==
    \/ \E key \in Keys, value \in Values : AddNewEmplace(key, value)
    \/ \E maxElements \in 0..MaxCapacity : ReserveAssign(maxElements)
    \/ TrimReturn
    \/ TrimPop
    \/ FlushEnter
    \/ FlushPop
    \/ FlushReturn

\* The program is sequential: a loop that is running takes its next step.
SpecLoops == Init /\ [][NextLoops]_vars /\ WF_vars(LoopStep)

----------------------------------------------------------------------------
\* History of the calls, kept beside the cache. It is written after the
\* call, from what the call did, and never read by the operations.

\* The call just made accessed its key: it found it or inserted it.
Accessed == last'.key \in KeySet(_container') /\ last'.op # "construct"
            /\ (last'.found \/ last'.op = "add" \/ last'.gen = 1)

\* The calls are not time-stamped.
Untimed == UNCHANGED <<clock, lastAccess>>

\* Every access gets the next clock value; removed keys lose their stamp.
Timed ==
    /\ Accessed => clock < MaxClock
    /\ clock' = IF Accessed THEN clock + 1 ELSE clock
    /\ lastAccess' = [k \in Keys |->
                        IF k \notin KeySet(_container') THEN 0
                        ELSE IF Accessed /\ k = last'.key THEN clock + 1
                        ELSE lastAccess[k]]

\* The generator runs are not recorded.
Ungenerated == UNCHANGED genState

\* Per key: whether the generator ran for it ("ok": returned, "failed":
\* threw) since the key was last removed from the cache or the cache flushed.
Generated ==
    genState' = [k \in Keys |->
                    IF last'.gen = 1 /\ last'.key = k
                    THEN (IF last'.err = "none" THEN "ok" ELSE "failed")
                    ELSE IF last'.op = "flush"
                            \/ (k \in KeySet(_container) /\ k \notin KeySet(_container'))
                    THEN "none"
                    ELSE genState[k]]

\* Any one call on the cache.
Next ==
    \/ \E key \in Keys, value \in Values : Add(key, value) /\ Untimed /\ Ungenerated
    \/ \E key \in Keys, func \in Values \cup GenErrors :
          GetOrCompute(key, func) /\ Untimed /\ Ungenerated
    \/ \E key \in Keys : Lookup(key) /\ Untimed /\ Ungenerated
    \/ \E key \in Keys : Get(key) /\ Untimed /\ Ungenerated
    \/ \E key \in Keys : Contains(key) /\ Untimed /\ Ungenerated
    \/ \E maxElements \in 0..MaxCapacity : Reserve(maxElements) /\ Untimed /\ Ungenerated
    \/ Flush /\ Untimed /\ Ungenerated
    \/ Size /\ Untimed /\ Ungenerated
    \/ ListKeys /\ Untimed /\ Ungenerated
    \/ Capacity /\ Untimed /\ Ungenerated

Spec == Init /\ [][Next]_vars

\* Any one call, the accesses time-stamped.
NextTimed ==
    \/ \E key \in Keys, value \in Values : Add(key, value) /\ Timed /\ Ungenerated
    \/ \E key \in Keys, func \in Values \cup GenErrors :
          GetOrCompute(key, func) /\ Timed /\ Ungenerated
    \/ \E key \in Keys : Lookup(key) /\ Timed /\ Ungenerated
    \/ \E key \in Keys : Get(key) /\ Timed /\ Ungenerated
    \/ \E key \in Keys : Contains(key) /\ Timed /\ Ungenerated
    \/ \E maxElements \in 0..MaxCapacity : Reserve(maxElements) /\ Timed /\ Ungenerated
    \/ Flush /\ Timed /\ Ungenerated
    \/ Size /\ Timed /\ Ungenerated
    \/ ListKeys /\ Timed /\ Ungenerated
    \/ Capacity /\ Timed /\ Ungenerated

SpecTimed == Init /\ [][NextTimed]_vars

\* Any one call, the generator runs recorded.
NextGenerated ==
    \/ \E key \in Keys, value \in Values : Add(key, value) /\ Untimed /\ Generated
    \/ \E key \in Keys, func \in Values \cup GenErrors :
          GetOrCompute(key, func) /\ Untimed /\ Generated
    \/ \E key \in Keys : Lookup(key) /\ Untimed /\ Generated
    \/ \E key \in Keys : Get(key) /\ Untimed /\ Generated
    \/ \E key \in Keys : Contains(key) /\ Untimed /\ Generated
    \/ \E maxElements \in 0..MaxCapacity : Reserve(maxElements) /\ Untimed /\ Generated
    \/ Flush /\ Untimed /\ Generated
    \/ Size /\ Untimed /\ Generated
    \/ ListKeys /\ Untimed /\ Generated
    \/ Capacity /\ Untimed /\ Generated

SpecGenerated == Init /\ [][NextGenerated]_vars

\* Calls on the cache, those made by a running generator among them: while
\* generating names a key, the other calls are the generator's.
NextReentrant ==
    \/ \E key \in Keys : GetOrComputeEnter(key) /\ Untimed /\ Ungenerated
    \/ \E func \in Values \cup GenErrors :
          GetOrComputeReturn(func) /\ Untimed /\ Ungenerated
    \/ \E key \in Keys, value \in Values : Add(key, value) /\ Untimed /\ Ungenerated
    \/ \E key \in Keys : Lookup(key) /\ Untimed /\ Ungenerated
    \/ \E maxElements \in 0..MaxCapacity : Reserve(maxElements) /\ Untimed /\ Ungenerated
    \/ Flush /\ Untimed /\ Ungenerated

SpecReentrant == Init /\ [][NextReentrant]_vars

\* The cache as constructed by default and never used.
CacheUnused ==
    /\ _maxElements = 0
    /\ _container = EmptyContainer
    /\ last = [op |-> "construct", key |-> "none", value |-> "none",
               found |-> FALSE, ret |-> "none", err |-> "none", gen |-> 0,
               n |-> 0, list |-> <<>>]
    /\ pre = [maxElements |-> 0, container |-> EmptyContainer]
    /\ clock = 0
    /\ lastAccess = [k \in Keys |-> 0]
    /\ genState = [k \in Keys |-> "none"]
    /\ generating = "none"
    /\ loop = NotLooping

\* One TemplateInvoker::apply call for each choice of its arguments.
NextInvoker ==
    Apply /\ UNCHANGED <<_maxElements, _container, last, pre, clock,
                         lastAccess, genState, packaged, generating, loop>>

InitInvoker == CacheUnused /\ Constructed /\ packaged = NotPackaged

SpecInvoker == InitInvoker /\ [][NextInvoker]_vars

\* One getPackageDir call for each installation and name.
NextPackaging ==
    GetPackage /\ UNCHANGED <<_maxElements, _container, last, pre, clock,
                              lastAccess, genState, invoked, generating,
                              loop>>

InitPackaging == CacheUnused /\ Installed /\ invoked = NotInvoked

SpecPackaging == InitPackaging /\ [][NextPackaging]_vars

----------------------------------------------------------------------------
\* Helpers of the properties.

Max(a, b) == IF a > b THEN a ELSE b

Min(a, b) == IF a < b THEN a ELSE b

\* The elements of the sequenced index, as a set.
ElementSet(c) == {c.seq[i] : i \in 1..Len(c.seq)}

\* Sequence s without its entries equal to x.
Without(s, x) == LET Other(y) == y # x IN SelectSeq(s, Other)

\* The stored value of a present key.
Stored(c, key) == (CHOOSE e \in ElementSet(c) : e.first = key).second

\* The last call named a key that was present when the call started.
WasPresent == last.key \in KeySet(pre.container)

\* The sequenced index of the last call as it stood after the promotion, the
\* insertion or the capacity change, and before any eviction.
Untrimmed ==
    IF last.op \in {"add", "getOrCompute"} /\ WasPresent
    THEN <<Element(last.key, Stored(pre.container, last.key))>>
            \o Without(pre.container.seq,
                       Element(last.key, Stored(pre.container, last.key)))
    ELSE IF last.op \in {"add", "getOrCompute"} /\ last.err = "none"
    THEN <<Element(last.key, last.value)>> \o pre.container.seq
    ELSE pre.container.seq

\* C1: capacity bound. In every reachable state, if capacity() > 0 then
\* size() <= capacity().
C1_CapacityBound ==
    capacity(_maxElements) > 0 => size(_container) <= capacity(_maxElements)

\* An insertion into a full bounded cache has just evicted an entry.
C1_Witness ==
    /\ last.op \in {"add", "getOrCompute"}
    /\ ~WasPresent
    /\ capacity(_maxElements) > 0
    /\ size(pre.container) = capacity(_maxElements)
    /\ size(_container) = capacity(_maxElements)

\* C2: the hashed and the sequenced view hold the same entries and keys are
\* unique. keys() holds no key twice, size() is the length of keys(), a key
\* is found exactly when it is in keys(), and the calls that look a key up
\* found it exactly when it was in keys() at the start of the call.
C2_IndexConsistency ==
    /\ \A i, j \in 1..Len(keys(_container)) :
          i # j => keys(_container)[i] # keys(_container)[j]
    /\ size(_container) = Len(keys(_container))
    /\ Cardinality(_container.hash) = size(_container)
    /\ _container.hash = ElementSet(_container)
    /\ \A k \in Keys :
          (find(_container, k) # end) <=>
              (\E i \in 1..Len(keys(_container)) : keys(_container)[i] = k)
    /\ last.op \in {"lookup", "tryGet", "contains", "add", "getOrCompute"}
          => (last.found <=> WasPresent)

\* contains has just found and promoted the second of two entries.
C2_Witness ==
    /\ size(_container) = 2
    /\ last.op = "contains"
    /\ last.found
    /\ pre.container.seq[1].first # last.key
    /\ Cardinality(_container.hash) = 2

\* C3: recency order. keys() lists the present keys in strictly decreasing
\* order of their last access (insertion or successful lookup, tryGet,
\* contains, add or getOrCompute); the head is the most recently used key.
C3_RecencyOrder ==
    /\ \A i, j \in 1..Len(keys(_container)) :
          i < j => lastAccess[keys(_container)[i]] > lastAccess[keys(_container)[j]]
    /\ \A k \in KeySet(_container) : lastAccess[k] > 0
    /\ last.op \in {"add", "getOrCompute", "lookup", "tryGet", "contains"}
       /\ last.key \in KeySet(_container)
       /\ (last.found \/ last.op = "add" \/ last.gen = 1)
          => lastAccess[keys(_container)[1]] = clock

\* A lookup has just promoted a key that was not the head, past two others.
C3_Witness ==
    /\ last.op = "lookup"
    /\ last.found
    /\ size(_container) = 3
    /\ pre.container.seq[3].first = last.key
    /\ lastAccess[last.key] = clock

\* C4: promotion on access. lookup, tryGet or contains of a present key k
\* leaves keys() = [k] followed by the previous keys() without k; size(),
\* capacity() and every stored value are unchanged; lookup and tryGet return
\* the stored value of k and contains returns true.
C4_PromotionOnAccess ==
    (last.op \in {"lookup", "tryGet", "contains"} /\ WasPresent) =>
        /\ keys(_container) =
              <<last.key>> \o Without(keys(pre.container), last.key)
        /\ size(_container) = size(pre.container)
        /\ capacity(_maxElements) = capacity(pre.maxElements)
        /\ ElementSet(_container) = ElementSet(pre.container)
        /\ last.found
        /\ last.err = "none"
        /\ last.op \in {"lookup", "tryGet"}
              => last.ret = Stored(pre.container, last.key)

\* tryGet has just promoted the last of three keys.
C4_Witness ==
    /\ last.op = "tryGet"
    /\ WasPresent
    /\ size(pre.container) = 3
    /\ pre.container.seq[3].first = last.key
    /\ last.ret = "v2"

\* C5: eviction takes the least recently used entries and only as many as
\* needed. What add, getOrCompute or reserve leaves is a front part of the
\* sequence as it stood after the insertion or capacity change (n entries),
\* and when entries were removed they are its last max(0, n - capacity())
\* ones; inserting A, B, C with capacity 2 gives keys() = [C, B]; lookup,
\* tryGet, contains and add of a present key remove nothing.
C5_EvictsLeastRecent ==
    LET n == Len(Untrimmed)
        removed == n - size(_container)
    IN  /\ last.op \in {"add", "getOrCompute", "reserve"} =>
              /\ removed >= 0
              /\ _container.seq = SubSeq(Untrimmed, 1, n - removed)
              /\ removed > 0 => removed = Max(0, n - capacity(_maxElements))
        /\ (/\ last.op \in {"add", "getOrCompute"}
            /\ last.key = "C"
            /\ last.err = "none"
            /\ keys(pre.container) = <<"B", "A">>
            /\ capacity(pre.maxElements) = 2) => keys(_container) = <<"C", "B">>
        /\ (last.op \in {"lookup", "tryGet", "contains", "add"} /\ WasPresent) =>
              ElementSet(_container) = ElementSet(pre.container)

\* A, B, C were inserted with capacity 2 and A, the oldest, was evicted.
C5_Witness ==
    /\ last.op = "add"
    /\ last.key = "C"
    /\ keys(pre.container) = <<"B", "A">>
    /\ capacity(_maxElements) = 2
    /\ keys(_container) = <<"C", "B">>

\* C6, as claimed: getOrCompute runs the generator once when the key is
\* absent and not at all when it is present, and between two runs of the
\* generator for one key the key is evicted or the cache flushed.
C6_GeneratorOncePerWindow ==
    [][/\ last'.op = "getOrCompute" =>
             last'.gen = (IF last'.key \in KeySet(pre'.container) THEN 0 ELSE 1)
       /\ last'.gen = 1 => genState[last'.key] = "none"]_vars

\* C6, amended: getOrCompute runs the generator once when the key is absent
\* and not at all when it is present, and between two runs of the generator
\* for one key, the first of which returned a value, the key is evicted or
\* the cache flushed (a run that threw stored nothing, so the next call for
\* the key runs the generator again).
C6_GeneratorOncePerStoredValue ==
    [][/\ last'.op = "getOrCompute" =>
             last'.gen = (IF last'.key \in KeySet(pre'.container) THEN 0 ELSE 1)
       /\ last'.gen = 1 => genState[last'.key] # "ok"]_vars

\* getOrCompute has found a key whose value the generator produced earlier,
\* and returned it without running the generator.
C6_Witness ==
    /\ last.op = "getOrCompute"
    /\ last.found
    /\ last.gen = 0
    /\ genState[last.key] = "ok"
    /\ last.value \in Values
    /\ last.value # last.ret

\* C7: result of getOrCompute. On a hit it promotes the key and returns the
\* stored value, whatever the generator would return; on a miss it returns
\* gen(k), k is at the head with stored value gen(k), the other keys follow
\* in their previous order and only tail entries beyond capacity() are gone.
C7_GetOrComputeResult ==
    LET k == last.key
        n == size(pre.container) + 1
        inserted == <<Element(k, last.value)>> \o pre.container.seq
    IN  last.op = "getOrCompute" =>
            IF WasPresent
            THEN /\ last.ret = Stored(pre.container, k)
                 /\ last.err = "none"
                 /\ keys(_container) = <<k>> \o Without(keys(pre.container), k)
                 /\ ElementSet(_container) = ElementSet(pre.container)
            ELSE last.value \in Values =>
                 /\ last.ret = last.value
                 /\ last.err = "none"
                 /\ size(_container) >= 1
                 /\ _container.seq[1] = Element(k, last.value)
                 /\ _container.seq = SubSeq(inserted, 1, size(_container))
                 /\ size(_container) =
                       (IF capacity(_maxElements) = 0 THEN n
                        ELSE Min(n, capacity(_maxElements)))

\* getOrCompute has missed on a full cache: the generated value is stored
\* at the head and the oldest entry is gone.
C7_Witness ==
    /\ last.op = "getOrCompute"
    /\ ~WasPresent
    /\ last.ret = "v2"
    /\ size(pre.container) = 2
    /\ capacity(_maxElements) = 2
    /\ keys(_container) = <<last.key, keys(pre.container)[1]>>

\* C8: a generator failure is atomic. The exception reaches the caller as
\* thrown, no entry for the key is added, and keys(), the stored values,
\* size() and capacity() are as before the call.
C8_GeneratorFailureAtomic ==
    (last.op = "getOrCompute" /\ ~WasPresent /\ last.value \in GenErrors) =>
        /\ last.err = last.value
        /\ last.ret = "none"
        /\ last.key \notin KeySet(_container)
        /\ _container = pre.container
        /\ _maxElements = pre.maxElements

\* The generator has thrown on a miss in a cache that holds two entries.
C8_Witness ==
    /\ last.op = "getOrCompute"
    /\ last.err \in GenErrors
    /\ size(pre.container) = 2
    /\ capacity(_maxElements) = 2

\* C9: first value wins. add(k, v2) on a cache that holds k with value v1
\* keeps v1, leaves size() and the set of keys as they were, and promotes
\* k to the head of keys().
C9_FirstValueWins ==
    (last.op = "add" /\ WasPresent) =>
        /\ Stored(_container, last.key) = Stored(pre.container, last.key)
        /\ size(_container) = size(pre.container)
        /\ KeySet(_container) = KeySet(pre.container)
        /\ keys(_container) =
              <<last.key>> \o Without(keys(pre.container), last.key)

\* add has been given another value for a key that was present, not at the
\* head.
C9_Witness ==
    /\ last.op = "add"
    /\ WasPresent
    /\ last.value # Stored(pre.container, last.key)
    /\ keys(pre.container)[1] # last.key

\* C10: add of an absent key. keys() becomes [k] followed by the previous
\* keys() cut to its first capacity() - 1 entries when capacity() > 0 (all
\* of them when capacity() = 0), and the stored value of k is v.
C10_AddAbsent ==
    LET old == keys(pre.container)
        kept == IF capacity(_maxElements) > 0
                THEN Min(capacity(_maxElements) - 1, Len(old))
                ELSE Len(old)
    IN  (last.op = "add" /\ ~WasPresent) =>
            /\ keys(_container) = <<last.key>> \o SubSeq(old, 1, kept)
            /\ Stored(_container, last.key) = last.value

\* add has inserted a new key into a full cache of capacity 2.
C10_Witness ==
    /\ last.op = "add"
    /\ ~WasPresent
    /\ capacity(_maxElements) = 2
    /\ size(pre.container) = 2
    /\ last.value = "v2"
    /\ size(_container) = 2

\* C11: a failed strict lookup leaves the cache untouched. lookup of a key
\* that is not present fails with NotFound and keys(), the stored values,
\* size() and capacity() are as before the call.
C11_LookupFailureUntouched ==
    (last.op = "lookup" /\ ~WasPresent) =>
        /\ last.err = "NotFound"
        /\ ~last.found
        /\ last.ret = "none"
        /\ _container = pre.container
        /\ _maxElements = pre.maxElements

\* lookup has failed on a cache that holds two other keys.
C11_Witness ==
    /\ last.op = "lookup"
    /\ last.err = "NotFound"
    /\ size(_container) = 2
    /\ last.key \notin KeySet(_container)

\* C12: misses that do not fail. For a key that is not present tryGet
\* returns an empty result and contains returns false, neither fails, and
\* keys(), the stored values, size() and capacity() stay as they were.
C12_NonFailingMisses ==
    (last.op \in {"tryGet", "contains"} /\ ~WasPresent) =>
        /\ last.err = "none"
        /\ ~last.found
        /\ last.ret = "none"
        /\ _container = pre.container
        /\ _maxElements = pre.maxElements

\* tryGet has missed on a cache that holds two other keys.
C12_Witness ==
    /\ last.op = "tryGet"
    /\ ~last.found
    /\ size(_container) = 2
    /\ last.key \notin KeySet(_container)
    /\ capacity(_maxElements) = 2

\* C13: reserve(n) with n > 0 makes capacity() n and keeps exactly the most
\* recent entries: keys() becomes the first min(previous size(), n) entries
\* of the previous keys(), in order and with their values; a larger capacity
\* removes nothing and brings nothing back.
C13_ReserveKeepsMostRecent ==
    (last.op = "reserve" /\ last.n > 0) =>
        /\ capacity(_maxElements) = last.n
        /\ _container.seq =
              SubSeq(pre.container.seq, 1, Min(size(pre.container), last.n))
        /\ keys(_container) =
              SubSeq(keys(pre.container), 1, Min(size(pre.container), last.n))
        /\ ElementSet(_container) \subseteq ElementSet(pre.container)

\* reserve(1) has cut a cache of three entries down to its head.
C13_Witness ==
    /\ last.op = "reserve"
    /\ last.n = 1
    /\ size(pre.container) = 3
    /\ keys(_container) = <<keys(pre.container)[1]>>

\* C14: unbounded mode. While capacity() = 0 no add, getOrCompute or
\* reserve(0) removes an entry; reserve(0) leaves keys() and the stored
\* values as they were and makes capacity() 0; every insertion of a new key
\* makes size() one larger, so N distinct keys put into an empty cache of
\* capacity 0 give size() = N.
C14_UnboundedMode ==
    /\ (last.op \in {"add", "getOrCompute", "reserve"}
        /\ capacity(_maxElements) = 0) =>
            ElementSet(pre.container) \subseteq ElementSet(_container)
    /\ (last.op = "reserve" /\ last.n = 0) =>
            /\ capacity(_maxElements) = 0
            /\ _container = pre.container
    /\ (last.op \in {"add", "getOrCompute"} /\ ~WasPresent
        /\ last.err = "none" /\ capacity(_maxElements) = 0) =>
            size(_container) = size(pre.container) + 1
    /\ (capacity(_maxElements) = 0 /\ size(pre.container) = 0
        /\ last.op \in {"add", "getOrCompute"} /\ last.err = "none") =>
            size(_container) = 1

\* A cache of capacity 0 has taken in a third key, more than any capacity
\* the model gives a bounded cache.
C14_Witness ==
    /\ last.op = "add"
    /\ ~WasPresent
    /\ capacity(pre.maxElements) = 0
    /\ size(pre.container) = 2
    /\ size(_container) = 3

\* C15: flush() removes every entry and keeps the capacity: size() = 0,
\* keys() is empty and capacity() is as before; afterwards a key comes back
\* only by an add or getOrCompute that names it, and until then lookup of it
\* fails with NotFound.
C15_FlushClearsAll ==
    [][/\ last'.op = "flush" =>
             /\ size(_container') = 0
             /\ keys(_container') = <<>>
             /\ _container'.hash = {}
             /\ capacity(_maxElements') = capacity(_maxElements)
       /\ \A k \in Keys :
             (k \notin KeySet(_container) /\ k \in KeySet(_container')) =>
                 (last'.op \in {"add", "getOrCompute"} /\ last'.key = k)
       /\ (last'.op = "lookup" /\ last'.key \notin KeySet(_container)) =>
             last'.err = "NotFound"
       /\ (last.op = "flush" /\ last'.op = "lookup") =>
             last'.err = "NotFound"]_vars

\* flush has emptied a cache of three entries whose capacity is unbounded.
C15_Witness ==
    /\ last.op = "flush"
    /\ size(pre.container) = 3
    /\ size(_container) = 0
    /\ capacity(_maxElements) = capacity(pre.maxElements)

\* C16: entries are immutable once created. No call changes the value
\* stored for a key that is present before and after it; the value of a key
\* can differ only after the key was removed and inserted again.
C16_EntriesImmutable ==
    [][\A k \in Keys :
          (k \in KeySet(_container) /\ k \in KeySet(_container')) =>
              Stored(_container', k) = Stored(_container, k)]_vars

\* getOrCompute has found a key whose stored value is not the one the
\* generator would return now, in a cache of three entries.
C16_Witness ==
    /\ last.op = "getOrCompute"
    /\ WasPresent
    /\ last.value \in Values
    /\ last.value # Stored(_container, last.key)
    /\ size(_container) = 3

\* C17: the observers change nothing. size(), keys() and capacity() leave
\* the recency order, the stored values and the capacity as they were;
\* size() and capacity() return the number of entries and the bound, and
\* keys() returns all present keys, most recently used first.
C17_ObserversChangeNothing ==
    last.op \in {"size", "keys", "capacity"} =>
        /\ _container = pre.container
        /\ _maxElements = pre.maxElements
        /\ last.err = "none"
        /\ last.op = "size" => last.n = Cardinality(_container.hash)
        /\ last.op = "capacity" => last.n = _maxElements
        /\ last.op = "keys" =>
              /\ Len(last.list) = Cardinality(_container.hash)
              /\ {last.list[i] : i \in 1..Len(last.list)} =
                    {e.first : e \in _container.hash}
              /\ \A i, j \in 1..Len(last.list) :
                    i < j => lastAccess[last.list[i]] > lastAccess[last.list[j]]

\* keys() has listed three keys after at least one of them was accessed
\* again.
C17_Witness ==
    /\ last.op = "keys"
    /\ Len(last.list) = 3
    /\ clock > 3
    /\ lastAccess[last.list[1]] = clock

\* C18, as claimed: NotFound comes only from the strict lookup. The only
\* call that ends in NotFound is lookup of an absent key; tryGet, contains
\* and getOrCompute never end in NotFound, and add, reserve, flush, size,
\* keys and capacity always succeed.
C18_NotFoundOnlyFromLookup ==
    /\ last.err = "NotFound" => (last.op = "lookup" /\ ~WasPresent)
    /\ last.op \in {"tryGet", "contains", "getOrCompute"} =>
          last.err # "NotFound"
    /\ last.op \in {"add", "reserve", "flush", "size", "keys", "capacity"} =>
          last.err = "none"

\* C18, amended: the cache itself raises NotFound only in lookup of an absent
\* key. tryGet and contains never end in NotFound; getOrCompute ends in an
\* error only when the generator it ran threw, and then in that very error,
\* so in NotFound only when the generator threw NotFound; add, reserve,
\* flush, size, keys and capacity always succeed.
C18_NotFoundOnlyRaisedByLookup ==
    /\ last.err = "NotFound" =>
          \/ last.op = "lookup" /\ ~WasPresent
          \/ /\ last.op = "getOrCompute"
             /\ ~WasPresent
             /\ last.gen = 1
             /\ last.value = "NotFound"
    /\ last.op \in {"tryGet", "contains"} => last.err = "none"
    /\ (last.op = "getOrCompute" /\ last.err # "none") =>
          /\ last.gen = 1
          /\ last.err = last.value
    /\ (last.op = "lookup" /\ WasPresent) => last.err = "none"
    /\ last.op \in {"add", "reserve", "flush", "size", "keys", "capacity"} =>
          last.err = "none"

\* lookup has failed with NotFound on a key that a cache of capacity 1 had
\* evicted or never held.
C18_Witness ==
    /\ last.op = "lookup"
    /\ last.err = "NotFound"
    /\ size(_container) = 1
    /\ capacity(_maxElements) = 1

\* The NumPy name of the dtype of a C++ type.
numpy_name(T) ==
    CASE T = "int" -> "int32"
      [] T = "float" -> "float32"
      [] T = "double" -> "float64"
      [] T = "bool" -> "bool"

\* C19: TemplateInvoker::apply calls function with a scalar of the first
\* type of the Tag that matches the dtype and returns its result; if no type
\* of the Tag matches, the error callback given at construction is called
\* with the dtype instead, whatever dtype is passed.
C19_ApplyMatchesOrCallsOnError ==
    LET types == invoked.typesToTry
        matching == {i \in 1..Len(types) : numpy_name(types[i]) = invoked.dtype}
    IN  invoked.result.called # "none" =>
            IF matching # {}
            THEN invoked.result =
                    Invocation("function",
                               types[CHOOSE i \in matching :
                                        \A j \in matching : i <= j])
            ELSE invoked.result = Invocation(invoked.onError, invoked.dtype)

\* C20: getPackageDir(name) returns the installation directory of a known
\* package, for cpputils a directory that holds tests/test_packaging.cc,
\* and fails with NotFoundError when the package name is unknown.
C20_GetPackageDir ==
    packaged.called =>
        IF packaged.name \in DOMAIN packaged.installation.dirs
        THEN /\ packaged.result.err = "none"
             /\ packaged.result.path = packaged.installation.dirs[packaged.name]
             /\ packaged.name = "cpputils" =>
                   is_regular_file(packaged.installation, packaged.result.path)
        ELSE /\ packaged.result.err = "NotFound"
             /\ packaged.result.path = "none"

\* getPackageDir("cpputils") has returned a directory while another package
\* is installed in a directory without the test file.
C20_Witness ==
    /\ packaged.called
    /\ packaged.name = "cpputils"
    /\ packaged.result.err = "none"
    /\ \E p \in DOMAIN packaged.installation.dirs :
          packaged.installation.dirs[p] \notin packaged.installation.tests

\* C21: the key just inserted or accessed survives the call. After an add
\* or a getOrCompute that returned, whatever the capacity, the key is present
\* and is the head of keys(), and a lookup of it made now does not fail;
\* reserve(n) with n >= 1 on a non-empty cache keeps the head it had.
C21_AccessedKeySurvives ==
    /\ (last.op \in {"add", "getOrCompute"} /\ last.err = "none") =>
          /\ find(_container, last.key) # end
          /\ size(_container) > 0
          /\ keys(_container)[1] = last.key
          /\ operator_index(_container, last.key).err = "none"
    /\ (last.op = "reserve" /\ last.n >= 1 /\ size(pre.container) > 0) =>
          /\ size(_container) > 0
          /\ _container.seq[1] = pre.container.seq[1]

\* getOrCompute has inserted an absent key into a cache that was full at
\* capacity 1, and the key it evicted is gone.
C21_Witness ==
    /\ last.op = "getOrCompute"
    /\ last.err = "none"
    /\ ~WasPresent
    /\ capacity(_maxElements) = 1
    /\ size(pre.container) = 1
    /\ keys(_container) = <<last.key>>

\* C22: retention. In a cache of capacity c > 0, an add or getOrCompute
\* removes a present key K only if at least c distinct other keys were
\* inserted or accessed after the last access of K and are present; a key
\* accessed again before c other keys are touched is not evicted by an
\* insertion.
C22_RetainedUntilOutlived ==
    [][(last'.op \in {"add", "getOrCompute"} /\ capacity(_maxElements) > 0) =>
          \A K \in KeySet(_container) \ KeySet(_container') :
              Cardinality({k \in KeySet(_container') :
                              /\ k # K
                              /\ lastAccess'[k] > lastAccess[K]})
                  >= capacity(_maxElements)]_vars

\* An insertion into a full cache of capacity 2 has evicted a key, after a
\* present key was accessed again.
C22_Witness ==
    /\ last.op \in {"add", "getOrCompute"}
    /\ ~WasPresent
    /\ last.err = "none"
    /\ capacity(_maxElements) = 2
    /\ size(pre.container) = 2
    /\ pre.container.seq[2].first \notin KeySet(_container)
    /\ clock >= 4
    /\ lastAccess[keys(_container)[2]] >= 3

\* C23: the invariants survive a generator that calls the cache. Whatever
\* calls the generator of getOrCompute(k, gen) makes on the cache, both
\* indices hold the same entries with unique keys and size() <= capacity()
\* when capacity() > 0; after the call returned the cache holds exactly one
\* entry for k; if gen left k present, the insertion of the outer call is
\* rejected: the cache stays as gen left it, with the value gen stored,
\* while the call returns what gen returned.
C23_ReentrantGeneratorKeepsInvariants ==
    /\ _container.hash = ElementSet(_container)
    /\ Cardinality(KeySet(_container)) = size(_container)
    /\ Cardinality(_container.hash) = size(_container)
    /\ capacity(_maxElements) > 0 => size(_container) <= capacity(_maxElements)
    /\ (last.op = "getOrComputeReturn" /\ last.err = "none") =>
          /\ Cardinality({i \in 1..Len(_container.seq) :
                             _container.seq[i].first = last.key}) = 1
          /\ Cardinality({e \in _container.hash : e.first = last.key}) = 1
          /\ last.ret = last.value
          /\ WasPresent =>
                /\ _container = pre.container
                /\ Stored(_container, last.key) = Stored(pre.container, last.key)

\* The generator has added the key itself, with another value than the one
\* it returned, and then another key; the cache holds the generator's value.
C23_Witness ==
    /\ last.op = "getOrComputeReturn"
    /\ last.err = "none"
    /\ WasPresent
    /\ last.ret = "v1"
    /\ Stored(_container, last.key) = "v2"
    /\ size(_container) = 2
    /\ keys(_container)[1] # last.key

\* What C24 says of every state of the eviction loops.
LoopsExact ==
    /\ ~loop.emptyPop
    /\ loop.fn # "none" => size(_container) = size(loop.entry) - loop.pops
    /\ loop.fn = "_trim" =>
          /\ capacity(_maxElements) = 0 => loop.pops = 0
          /\ loop.pops <= Max(0, size(loop.entry) - capacity(_maxElements))
          /\ ~loop.running =>
                /\ capacity(_maxElements) > 0 =>
                      loop.pops = Max(0, size(loop.entry) - capacity(_maxElements))
                /\ _container = _trim(_maxElements, loop.entry)
    /\ loop.fn = "flush" =>
          /\ loop.pops <= size(loop.entry)
          /\ ~loop.running =>
                /\ loop.pops = size(loop.entry)
                /\ size(_container) = 0
                /\ _container = flush(loop.entry)

\* C24: the eviction loops terminate and never pop an empty sequence. _trim
\* returns at once when capacity() == 0 and otherwise makes exactly
\* max(0, size() - capacity()) pop_back calls, flush makes exactly size()
\* pop_back calls and stops with size() == 0, each call on a non-empty
\* sequence, and a loop that runs comes to its end.
C24_EvictionLoopsTerminate ==
    /\ []LoopsExact
    /\ loop.running ~> ~loop.running

\* _trim has returned after two pop_back calls: reserve(1) on three entries.
C24_Witness ==
    /\ loop.fn = "_trim"
    /\ ~loop.running
    /\ loop.pops = 2
    /\ capacity(_maxElements) = 1
    /\ size(_container) = 1

=============================================================================
